---- MODULE Spec2Model ----
(***************************************************************************)
(* Model of plugins/modules/floating_ip.py: the Ansible module that        *)
(* reconciles one cloudscale.ch floating IP against a desired state.       *)
(*                                                                         *)
(* An invocation of main() is split at its network calls: Start (argument  *)
(* validation and the first half of the constructor), UpdateInfo (the GET  *)
(* of the constructor), and one of ExitCheckMode, RequestFloatingIP,       *)
(* ReleaseFloatingIP, UpdateFloatingIP, NoOp (the rest of main()).         *)
(* The backing store and the HTTP collaborator (module_utils/api.py, not   *)
(* part of the module file) are modelled from the collaborator contract.   *)
(***************************************************************************)
EXTENDS Integers, Sequences, FiniteSets, TLC

VARIABLES
    store,       \* the service's floating IPs: network address -> resource
    pc,          \* per control node: "idle", "fetch", "main", "done"
    params,      \* module.params
    check_mode,  \* module.check_mode
    info,        \* floating_ip.info
    result,      \* what exit_json / fail_json printed
    calls,       \* the HTTP calls of this invocation, in order
    action,      \* the branch of main() that was run
    store0,      \* history: the store when this invocation started
    current,     \* history: floating_ip.info when main() decided
    prev         \* history: the invocation before this one, when this is a rerun

vars == <<store, pc, params, check_mode, info, result, calls, action, store0, current, prev>>

\* Addresses of the model are 0..MaxAddr.
MaxAddr == 1
\* The service refuses a create once MaxFloating floating IPs exist.
MaxFloating == 2

\* Python None in a string-typed position, in an integer-typed position and
\* in an object-typed position (TLC compares values of one type only).
None == "None"
NoneInt == -1
NoneObj == [none |-> TRUE]

\* The empty string '' given for server, and given for ip (ip is an address,
\* an integer, of the model): a value that is given and false.
Empty == ""
EmptyInt == -2

\* Python truth of a str parameter: neither None nor ''.
truthy(v) == v \notin {None, Empty}
truthy_ip(i) == i \notin {NoneInt, EmptyInt}

\* Control nodes that may run the module; Spec runs the first one alone.
Procs == {"ctl-1", "ctl-2"}

Addrs == 0..MaxAddr
Servers == {"srv-1", "srv-2"}
TagValues == {"{}", "{env:prod}"}
States == {"present", "absent"}

\* The parameters only request_floating_ip() reads, drawn from three
\* combinations: none given (defaults), an IPv4 address, an IPv6 /56 network.
CreateParams ==
    { [ip_version |-> NoneInt, prefix_length |-> NoneInt, reverse_ptr |-> None,
       type |-> "regional", region |-> None],
      [ip_version |-> 4, prefix_length |-> NoneInt, reverse_ptr |-> "ptr.example.com",
       type |-> "regional", region |-> "rma"],
      [ip_version |-> 6, prefix_length |-> 56, reverse_ptr |-> None,
       type |-> "global", region |-> None] }

\* module.params after argument parsing, every str parameter given or None.
GivenParams ==
    { [state |-> s, ip |-> i, server |-> sv, tags |-> t,
       ip_version |-> c.ip_version, prefix_length |-> c.prefix_length,
       reverse_ptr |-> c.reverse_ptr, type |-> c.type, region |-> c.region] :
      s \in States, i \in Addrs \cup {NoneInt}, sv \in Servers \cup {None},
      t \in TagValues \cup {None}, c \in CreateParams }

\* module.params with '' given for ip or for server, on regional floating
\* IPs with no tags asked for.
EmptyParams ==
    { [state |-> s, ip |-> i, server |-> sv, tags |-> None,
       ip_version |-> c.ip_version, prefix_length |-> c.prefix_length,
       reverse_ptr |-> c.reverse_ptr, type |-> c.type, region |-> c.region] :
      s \in States, i \in Addrs \cup {NoneInt, EmptyInt},
      sv \in Servers \cup {None, Empty},
      c \in { d \in CreateParams : d.type = "regional" } }

ParamSpace ==
    GivenParams \cup { q \in EmptyParams : q.ip = EmptyInt \/ q.server = Empty }

-----------------------------------------------------------------------------
(* The remote service, from the collaborator contract.                     *)

\* Number of addresses a network of this prefix length spans in the model:
\* a /32 or /128 is one address, a /56 is scaled down to a block of two.
BlockSize(prefixlen) == IF prefixlen = 56 THEN 2 ELSE 1

\* The raw resource the service returns for the floating IP keyed k.
ApiRaw(st, k) ==
    [href |-> <<"floating-ips", k>>,
     network |-> [addr |-> k, prefixlen |-> st[k].prefixlen],
     ip_version |-> IF st[k].prefixlen = 32 THEN 4 ELSE 6,
     server |-> IF st[k].server = None THEN NoneObj
                ELSE [href |-> <<"servers", st[k].server>>, uuid |-> st[k].server],
     reverse_ptr |-> st[k].reverse_ptr,
     type |-> st[k].type,
     region |-> st[k].region,
     tags |-> st[k].tags]

\* fetch(identifier) -> rawResource | empty
ApiGet(st, k) == IF k \in DOMAIN st THEN ApiRaw(st, k) ELSE NoneObj

\* Addresses the service can hand out for a new network of this prefix length.
FreeAddrs(st, prefixlen) ==
    IF Cardinality(DOMAIN st) >= MaxFloating THEN {}
    ELSE { a \in Addrs : /\ a % BlockSize(prefixlen) = 0
                         /\ a + BlockSize(prefixlen) - 1 <= MaxAddr
                         /\ \A k \in DOMAIN st :
                               \/ k + BlockSize(st[k].prefixlen) - 1 < a
                               \/ a + BlockSize(prefixlen) - 1 < k }

NewPrefixLen(data) ==
    IF data.prefix_length # NoneInt THEN data.prefix_length
    ELSE IF data.ip_version = 4 THEN 32 ELSE 128

\* create(params) -> rawResource, the service choosing the address a.
ApiCreate(st, a, data) ==
    [k \in DOMAIN st \cup {a} |->
        IF k = a
        THEN [prefixlen |-> NewPrefixLen(data),
              server |-> data.server,
              tags |-> IF data.tags = None THEN "{}" ELSE data.tags,
              reverse_ptr |-> data.reverse_ptr,
              type |-> data.type,
              region |-> data.region]
        ELSE st[k]]

\* update(identifier, params) -> rawResource; an omitted field is left alone.
ApiUpdate(st, k, data) ==
    [st EXCEPT ![k] =
        [@ EXCEPT !.server = data.server,
                  !.tags = IF data.tags = None THEN @ ELSE data.tags]]

\* delete(identifier) -> ()
ApiDelete(st, k) == [j \in DOMAIN st \ {k} |-> st[j]]

-----------------------------------------------------------------------------
(* The module's pure parts.                                                *)

\* ip_network(network) is strict: it raises ValueError when host bits are set.
valid_network(net) == net.addr % BlockSize(net.prefixlen) = 0

\* Mutant of network_address: the last address of the network is taken.
network_address_last(net) ==
    (net.addr \div BlockSize(net.prefixlen)) * BlockSize(net.prefixlen)
        + BlockSize(net.prefixlen) - 1

\* ip_network(network).network_address
network_address(net) ==
    (net.addr \div BlockSize(net.prefixlen)) * BlockSize(net.prefixlen)

\* AnsibleCloudscaleFloatingIP._resp2info, for a response whose network is
\* valid; the service of this model answers create and update requests with
\* valid networks only.
resp2info(resp) ==
    [k \in DOMAIN resp \cup {"state", "ip"} |->
        CASE k = "state" -> "present"
          [] k = "ip" -> network_address(resp.network)
          [] k = "server" -> IF resp.server # NoneObj THEN resp.server.uuid ELSE None
          [] OTHER -> resp[k]]

\* Mutant of current_server: a key the record never holds is read.
current_server_missing(inf) == IF "server_uuid" \in DOMAIN inf THEN inf.server ELSE None

\* main(): current_server
current_server(inf) == IF "server" \in DOMAIN inf THEN inf.server ELSE None

\* main(): the changed value of the check_mode exit
check_changed(target_state, current_state, cur_server, target_server) ==
    (~(target_state = current_state))
        \/ (current_state = "present" /\ cur_server # target_server)

\* Mutant of branch: the server comparison is made before the state comparison.
branch_server_first(target_state, current_state, cur_server, target_server) ==
    IF current_state = "absent" /\ target_state = "present" THEN "create"
    ELSE IF current_state = "present" /\ cur_server # target_server THEN "update"
    ELSE IF current_state = "present" /\ target_state = "absent" THEN "delete"
    ELSE "no-op"

\* main(): the if/elif chain of the execute branch
branch(target_state, current_state, cur_server, target_server) ==
    IF current_state = "absent" /\ target_state = "present" THEN "create"
    ELSE IF current_state = "present" /\ target_state = "absent" THEN "delete"
    ELSE IF current_state = "present" /\ cur_server # target_server THEN "update"
    ELSE "no-op"

\* Mutant of request_data: the server is left out of the create payload.
request_data_no_server(prm) ==
    [ip_version |-> prm.ip_version,
     server |-> None,
     prefix_length |-> prm.prefix_length,
     reverse_ptr |-> prm.reverse_ptr,
     type |-> prm.type,
     region |-> prm.region,
     tags |-> prm.tags]

\* request_floating_ip(): data
request_data(prm) ==
    [ip_version |-> prm.ip_version,
     server |-> prm.server,
     prefix_length |-> prm.prefix_length,
     reverse_ptr |-> prm.reverse_ptr,
     type |-> prm.type,
     region |-> prm.region,
     tags |-> prm.tags]

\* Mutant of update_data: the payload of the create request is sent.
update_data_all(prm) ==
    [ip_version |-> prm.ip_version,
     server |-> prm.server,
     prefix_length |-> prm.prefix_length,
     reverse_ptr |-> prm.reverse_ptr,
     type |-> prm.type,
     region |-> prm.region,
     tags |-> prm.tags]

\* Mutant of update_data: the server asked for is left out of the payload.
update_data_no_server(prm) == [server |-> None, tags |-> prm.tags]

\* update_floating_ip(): data
update_data(prm) == [server |-> prm.server, tags |-> prm.tags]

\* release_floating_ip(): 'floating-ips/%s' % params['ip']
release_path(prm) == <<"floating-ips", prm.ip>>

\* Mutant of update_path: the request is keyed by another address than ip.
update_path_other(prm) == <<"floating-ips", (prm.ip + 1) % (MaxAddr + 1)>>

\* update_floating_ip(): 'floating-ips/%s' % params['ip']
update_path(prm) == <<"floating-ips", prm.ip>>

\* Mutant of release_info: the fetched record is kept, with its state flipped.
release_info_keep(inf) == [inf EXCEPT !.state = "absent"]

\* release_floating_ip(): the info synthesized after the delete
release_info(inf) == [ip |-> inf.ip, state |-> "absent"]

\* Mutant of absent_info: an empty response is recorded as a present floating IP.
absent_info_present(prm) == [ip |-> prm.ip, state |-> "present"]

\* update_info(): the info synthesized for an empty response
absent_info(prm) == [ip |-> prm.ip, state |-> "absent"]

-----------------------------------------------------------------------------
(* Results.                                                                *)

NoResult == [pending |-> TRUE]

\* Mutant of exit_json: only the state of the record is returned.
exit_json_state_only(changed, inf) ==
    [failed |-> FALSE, changed |-> changed, rec |-> [state |-> inf.state]]

\* module.exit_json(changed=..., **floating_ip.info)
exit_json(changed, inf) == [failed |-> FALSE, changed |-> changed, rec |-> inf]

\* module.fail_json(msg=...)
fail_json(msg) == [failed |-> TRUE, msg |-> msg]

MsgOneOf == "one of the following is required: ip, ip_version"
MsgIpVersion == "missing required arguments: ip_version"
MsgServer == "Missing required parameter to update a floating IP: server."
MsgApi == "API error"
MsgIpaddress == "Failed to import the required Python library (ipaddress)"
MsgMalformed == "ValueError: network has host bits set"

-----------------------------------------------------------------------------
(* The invocation, step by step.                                           *)

EmptyStore == [k \in {} |-> NoneObj]

\* One logged call of the HTTP collaborator, ok being the collaborator's outcome.
Get(path, ok) == [method |-> "GET", path |-> path, ok |-> ok]
Post(path, data, ok) == [method |-> "POST", path |-> path, data |-> data, ok |-> ok]
Delete(path, ok) == [method |-> "DELETE", path |-> path, ok |-> ok]

Init ==
    /\ store = EmptyStore
    /\ store0 = [p \in Procs |-> EmptyStore]
    /\ current = [p \in Procs |-> NoneObj]
    /\ pc = [p \in Procs |-> "idle"]
    /\ params = [p \in Procs |-> NoneObj]
    /\ check_mode = [p \in Procs |-> FALSE]
    /\ info = [p \in Procs |-> NoneObj]
    /\ result = [p \in Procs |-> NoResult]
    /\ calls = [p \in Procs |-> <<>>]
    /\ action = [p \in Procs |-> "none"]
    /\ prev = [p \in Procs |-> [rerun |-> FALSE]]

\* The invocation ends in a failure: nothing else is touched.
Abort(p, msg, cs) ==
    /\ pc' = [pc EXCEPT ![p] = "done"]
    /\ result' = [result EXCEPT ![p] = fail_json(msg)]
    /\ calls' = [calls EXCEPT ![p] = cs]
    /\ UNCHANGED <<store, info>>

\* Mutant of FailMissing: the parameters are validated after the request is sent.
FailMissingLate(p, msg) ==
    Abort(p, msg, Append(calls[p], Post(<<"floating-ips">>, request_data(params[p]), TRUE)))

\* fail_on_missing_params() / fail_json() ahead of the request.
FailMissing(p, msg) == Abort(p, msg, calls[p])

\* The collaborator fails the call c: it ends the invocation with its error.
ApiFail(p, c) == Abort(p, MsgApi, Append(calls[p], c))

\* The collaborator answers the call c.
ApiOk(p, c) == calls' = [calls EXCEPT ![p] = Append(@, c)]

\* Mutant of InCheckMode: check mode is not honoured.
InCheckModeNever(p) == FALSE

\* main(): if module.check_mode
InCheckMode(p) == check_mode[p]

\* Mutant of required_one_of: ip and ip_version exclude each other.
required_one_of_exactly(prm) == (prm.ip # NoneInt) # (prm.ip_version # NoneInt)

\* AnsibleModule(required_one_of=(('ip', 'ip_version'),)): at least one is given.
required_one_of(prm) == prm.ip # NoneInt \/ prm.ip_version # NoneInt

\* main(): AnsibleModule(...), the HAS_IPADDRESS check and the first lines of
\* the constructor; lib tells whether the ipaddress library could be imported.
Begin(p, prm, cm, pv, lib) ==
    /\ params' = [params EXCEPT ![p] = prm]
    /\ check_mode' = [check_mode EXCEPT ![p] = cm]
    /\ prev' = [prev EXCEPT ![p] = pv]
    /\ action' = [action EXCEPT ![p] = "none"]
    /\ calls' = [calls EXCEPT ![p] = <<>>]
    /\ store0' = [store0 EXCEPT ![p] = store]
    /\ current' = [current EXCEPT ![p] = NoneObj]
    /\ UNCHANGED store
    /\ IF ~required_one_of(prm) \/ ~lib
       THEN /\ pc' = [pc EXCEPT ![p] = "done"]
            /\ result' = [result EXCEPT ![p] =
                            IF ~required_one_of(prm) THEN fail_json(MsgOneOf)
                            ELSE fail_json(MsgIpaddress)]
            /\ info' = [info EXCEPT ![p] = NoneObj]
       ELSE /\ pc' = [pc EXCEPT ![p] = IF truthy_ip(prm.ip) THEN "fetch" ELSE "main"]
            /\ result' = [result EXCEPT ![p] = NoResult]
            /\ info' = [info EXCEPT ![p] = [state |-> "absent"]]

\* A fresh invocation with any parameters.
Start(p) ==
    /\ pc[p] = "idle"
    /\ \E prm \in ParamSpace, cm \in BOOLEAN, lib \in BOOLEAN :
          Begin(p, prm, cm, [rerun |-> FALSE], lib)

\* The playbook is run again on the same control node: the same parameters,
\* with or without --check.
Rerun(p) ==
    /\ pc[p] = "done"
    /\ result[p] # fail_json(MsgIpaddress)
    /\ \E cm \in BOOLEAN :
          Begin(p, params[p], cm,
                [rerun |-> TRUE, check_mode |-> check_mode[p],
                 result |-> result[p], action |-> action[p]], TRUE)

\* Mutant of UpdateInfo: the floating IP is fetched a second time.
UpdateInfoTwice(p) ==
    /\ pc[p] = "fetch"
    /\ LET path == <<"floating-ips", params[p].ip>>
           resp == ApiGet(store, params[p].ip)
       IN \/ ApiFail(p, Get(path, FALSE))
          \/ /\ calls' = [calls EXCEPT ![p] = calls[p] \o <<Get(path, TRUE), Get(path, TRUE)>>]
             /\ info' = [info EXCEPT ![p] =
                            IF resp # NoneObj THEN resp2info(resp)
                            ELSE absent_info(params[p])]
             /\ pc' = [pc EXCEPT ![p] = "main"]
             /\ UNCHANGED <<store, result>>
    /\ UNCHANGED <<store0, current, params, check_mode, action, prev>>

\* update_info(), called by the constructor when ip is given.
UpdateInfo(p) ==
    /\ pc[p] = "fetch"
    /\ LET path == <<"floating-ips", params[p].ip>>
           resp == ApiGet(store, params[p].ip)
       IN \/ ApiFail(p, Get(path, FALSE))
          \/ IF resp # NoneObj /\ ~valid_network(resp.network)
             THEN Abort(p, MsgMalformed, Append(calls[p], Get(path, TRUE)))
             ELSE /\ ApiOk(p, Get(path, TRUE))
                  /\ info' = [info EXCEPT ![p] =
                                 IF resp # NoneObj THEN resp2info(resp)
                                 ELSE absent_info(params[p])]
                  /\ pc' = [pc EXCEPT ![p] = "main"]
                  /\ UNCHANGED <<store, result>>
    /\ UNCHANGED <<store0, current, params, check_mode, action, prev>>

\* The process of a finished invocation is gone; the store stays.
Exit(p) ==
    /\ pc[p] = "done"
    /\ pc' = [pc EXCEPT ![p] = "idle"]
    /\ params' = [params EXCEPT ![p] = NoneObj]
    /\ check_mode' = [check_mode EXCEPT ![p] = FALSE]
    /\ info' = [info EXCEPT ![p] = NoneObj]
    /\ result' = [result EXCEPT ![p] = NoResult]
    /\ calls' = [calls EXCEPT ![p] = <<>>]
    /\ action' = [action EXCEPT ![p] = "none"]
    /\ prev' = [prev EXCEPT ![p] = [rerun |-> FALSE]]
    /\ store0' = [store0 EXCEPT ![p] = EmptyStore]
    /\ current' = [current EXCEPT ![p] = NoneObj]
    /\ UNCHANGED store

\* Mutant of Selected: differing tags select the update as well.
SelectedWithTags(p) ==
    IF /\ params[p].state = "present"
       /\ info[p].state = "present"
       /\ params[p].tags # None
       /\ params[p].tags # info[p].tags
    THEN "update"
    ELSE branch(params[p].state, info[p].state, current_server(info[p]), params[p].server)

\* main(): the branch the if/elif chain takes for this invocation
Selected(p) ==
    branch(params[p].state, info[p].state, current_server(info[p]), params[p].server)

\* main(): if module.check_mode: module.exit_json(...)
ExitCheckMode(p) ==
    /\ pc[p] = "main"
    /\ InCheckMode(p)
    /\ pc' = [pc EXCEPT ![p] = "done"]
    /\ result' = [result EXCEPT ![p] =
                    exit_json(check_changed(params[p].state, info[p].state,
                                            current_server(info[p]), params[p].server),
                              info[p])]
    /\ current' = [current EXCEPT ![p] = info[p]]
    /\ UNCHANGED <<store, store0, params, check_mode, info, calls, action, prev>>

\* main(): no branch of the if/elif chain is taken.
NoOp(p) ==
    /\ pc[p] = "main"
    /\ ~InCheckMode(p)
    /\ Selected(p) = "no-op"
    /\ pc' = [pc EXCEPT ![p] = "done"]
    /\ action' = [action EXCEPT ![p] = "no-op"]
    /\ result' = [result EXCEPT ![p] = exit_json(FALSE, info[p])]
    /\ current' = [current EXCEPT ![p] = info[p]]
    /\ UNCHANGED <<store, store0, params, check_mode, info, calls, prev>>

\* main(): floating_ip.request_floating_ip(); changed = True; exit_json
RequestFloatingIP(p) ==
    /\ pc[p] = "main"
    /\ ~InCheckMode(p)
    /\ Selected(p) = "create"
    /\ action' = [action EXCEPT ![p] = "create"]
    /\ current' = [current EXCEPT ![p] = info[p]]
    /\ UNCHANGED <<store0, params, check_mode, prev>>
    /\ IF params[p].ip_version = NoneInt
       THEN FailMissing(p, MsgIpVersion)
       ELSE LET data == request_data(params[p])
                path == <<"floating-ips">>
            IN \/ ApiFail(p, Post(path, data, FALSE))
               \/ \E a \in FreeAddrs(store, NewPrefixLen(data)) :
                     LET st == ApiCreate(store, a, data)
                         inf == resp2info(ApiRaw(st, a))
                     IN /\ ApiOk(p, Post(path, data, TRUE))
                        /\ store' = st
                        /\ info' = [info EXCEPT ![p] = inf]
                        /\ result' = [result EXCEPT ![p] = exit_json(TRUE, inf)]
                        /\ pc' = [pc EXCEPT ![p] = "done"]

\* Mutant of ReleaseFloatingIP: an error of the delete request is swallowed.
ReleaseFloatingIPSwallow(p) ==
    /\ pc[p] = "main"
    /\ ~InCheckMode(p)
    /\ Selected(p) = "delete"
    /\ action' = [action EXCEPT ![p] = "delete"]
    /\ current' = [current EXCEPT ![p] = info[p]]
    /\ UNCHANGED <<store0, params, check_mode, prev>>
    /\ LET path == release_path(params[p])
       IN /\ \E ok \in BOOLEAN :
                /\ ApiOk(p, Delete(path, ok))
                /\ store' = IF ok /\ path[2] \in DOMAIN store
                            THEN ApiDelete(store, path[2]) ELSE store
          /\ info' = [info EXCEPT ![p] = release_info(info[p])]
          /\ result' = [result EXCEPT ![p] = exit_json(TRUE, release_info(info[p]))]
          /\ pc' = [pc EXCEPT ![p] = "done"]

\* main(): floating_ip.release_floating_ip(); changed = True; exit_json
ReleaseFloatingIP(p) ==
    /\ pc[p] = "main"
    /\ ~InCheckMode(p)
    /\ Selected(p) = "delete"
    /\ action' = [action EXCEPT ![p] = "delete"]
    /\ current' = [current EXCEPT ![p] = info[p]]
    /\ UNCHANGED <<store0, params, check_mode, prev>>
    /\ LET path == release_path(params[p])
       IN \/ ApiFail(p, Delete(path, FALSE))
          \/ /\ path[2] \in DOMAIN store
             /\ ApiOk(p, Delete(path, TRUE))
             /\ store' = ApiDelete(store, path[2])
             /\ info' = [info EXCEPT ![p] = release_info(info[p])]
             /\ result' = [result EXCEPT ![p] = exit_json(TRUE, release_info(info[p]))]
             /\ pc' = [pc EXCEPT ![p] = "done"]

\* main(): floating_ip.update_floating_ip(); changed = True; exit_json
UpdateFloatingIP(p) ==
    /\ pc[p] = "main"
    /\ ~InCheckMode(p)
    /\ Selected(p) = "update"
    /\ action' = [action EXCEPT ![p] = "update"]
    /\ current' = [current EXCEPT ![p] = info[p]]
    /\ UNCHANGED <<store0, params, check_mode, prev>>
    /\ IF ~truthy(params[p].server)
       THEN FailMissing(p, MsgServer)
       ELSE LET data == update_data(params[p])
                path == update_path(params[p])
            IN \/ ApiFail(p, Post(path, data, FALSE))
               \/ /\ path[2] \in DOMAIN store
                  /\ LET st == ApiUpdate(store, path[2], data)
                         inf == resp2info(ApiRaw(st, path[2]))
                     IN /\ ApiOk(p, Post(path, data, TRUE))
                        /\ store' = st
                        /\ info' = [info EXCEPT ![p] = inf]
                        /\ result' = [result EXCEPT ![p] = exit_json(TRUE, inf)]
                        /\ pc' = [pc EXCEPT ![p] = "done"]

Step(p) ==
    \/ Start(p)
    \/ Rerun(p)
    \/ UpdateInfo(p)
    \/ ExitCheckMode(p)
    \/ NoOp(p)
    \/ RequestFloatingIP(p)
    \/ ReleaseFloatingIP(p)
    \/ UpdateFloatingIP(p)
    \/ Exit(p)

Next == Step("ctl-1")

Spec == Init /\ [][Next]_vars

-----------------------------------------------------------------------------
(* Two control nodes reconciling the same floating IP at once.             *)

RaceAddr == 0

\* The stores holding the one floating IP both control nodes are pointed at,
\* as an earlier create left it.
RaceStores ==
    { ApiCreate(EmptyStore, RaceAddr, request_data(prm)) :
        prm \in { q \in ParamSpace :
                    q.state = "present" /\ q.ip = NoneInt /\ q.ip_version = 4 } }

\* state = present on that floating IP with a server to assign it to.
RaceParams ==
    { q \in ParamSpace :
        /\ q.state = "present"
        /\ q.ip = RaceAddr
        /\ q.server \in Servers
        /\ q.ip_version = NoneInt }

RaceInit ==
    /\ store \in RaceStores
    /\ store0 = [p \in Procs |-> EmptyStore]
    /\ current = [p \in Procs |-> NoneObj]
    /\ pc = [p \in Procs |-> "idle"]
    /\ params = [p \in Procs |-> NoneObj]
    /\ check_mode = [p \in Procs |-> FALSE]
    /\ info = [p \in Procs |-> NoneObj]
    /\ result = [p \in Procs |-> NoResult]
    /\ calls = [p \in Procs |-> <<>>]
    /\ action = [p \in Procs |-> "none"]
    /\ prev = [p \in Procs |-> [rerun |-> FALSE]]

\* A real run of the module on a control node.
RaceStart(p) ==
    /\ pc[p] = "idle"
    /\ \E prm \in RaceParams : Begin(p, prm, FALSE, [rerun |-> FALSE], TRUE)

\* The steps of the control nodes interleave freely: nothing orders them.
RaceNext ==
    \E p \in Procs :
        \/ RaceStart(p)
        \/ UpdateInfo(p)
        \/ NoOp(p)
        \/ UpdateFloatingIP(p)
        \/ Exit(p)

SpecRace == RaceInit /\ [][RaceNext]_vars

-----------------------------------------------------------------------------
(* The mapping of a fetch result alone, on any response of the service.    *)

\* The fields of a floating IP as the service may hold them.
MapperFields ==
    [prefixlen : {32, 56, 128},
     server : Servers \cup {None},
     tags : TagValues,
     reverse_ptr : {None, "ptr.example.com"},
     type : {"regional", "global"},
     region : {"rma"}]

\* No floating IP, or one floating IP at any address: the network of the
\* response is then any address with any prefix length, host bits included.
MapperStores ==
    {EmptyStore} \cup { [j \in {k} |-> r] : k \in Addrs, r \in MapperFields }

\* Parameters that differ in the address asked for.
MapperParams ==
    { q \in ParamSpace :
        /\ q.ip_version = 4
        /\ q.server = None
        /\ q.tags = None }

MapperInit ==
    /\ store \in MapperStores
    /\ store0 = [p \in Procs |-> EmptyStore]
    /\ current = [p \in Procs |-> NoneObj]
    /\ pc = [p \in Procs |-> "idle"]
    /\ params = [p \in Procs |-> NoneObj]
    /\ check_mode = [p \in Procs |-> FALSE]
    /\ info = [p \in Procs |-> NoneObj]
    /\ result = [p \in Procs |-> NoResult]
    /\ calls = [p \in Procs |-> <<>>]
    /\ action = [p \in Procs |-> "none"]
    /\ prev = [p \in Procs |-> [rerun |-> FALSE]]

\* The constructor is entered.
MapperStart(p) ==
    /\ pc[p] = "idle"
    /\ \E prm \in MapperParams : Begin(p, prm, FALSE, [rerun |-> FALSE], TRUE)

\* The constructor alone: it ends with info set, or in a failure.
MapperNext ==
    \/ MapperStart("ctl-1")
    \/ UpdateInfo("ctl-1")

SpecMapper == MapperInit /\ [][MapperNext]_vars

-----------------------------------------------------------------------------
(* Vocabulary of the properties.                                           *)

Done(p) == pc[p] = "done"
Succeeded(p) == Done(p) /\ ~result[p].failed
RealRun(p) == Done(p) /\ ~check_mode[p]
DryRun(p) == Done(p) /\ check_mode[p]

\* The create, update and delete calls among the calls cs.
MutatingCalls(cs) == { i \in 1..Len(cs) : cs[i].method \in {"POST", "DELETE"} }
IsUpdateCall(c) == c.method = "POST" /\ Len(c.path) = 2

\* A real run that follows a successful real run with the same parameters.
SecondRealRun(p) ==
    /\ RealRun(p)
    /\ prev[p].rerun
    /\ ~prev[p].check_mode
    /\ ~prev[p].result.failed

\* A real run that follows a successful dry run with the same parameters: the
\* dry run left the store alone, so both ran on the same (desired, current) pair.
RealAfterDry(p) ==
    /\ RealRun(p)
    /\ prev[p].rerun
    /\ prev[p].check_mode
    /\ ~prev[p].result.failed

MissingParameter(p) ==
    Done(p) /\ result[p].failed /\ result[p].msg \in {MsgIpVersion, MsgServer}

\* The decision table of the design, on the current record and the desired state.
DecisionTable(cur, des) ==
    CASE cur.state = "absent" /\ des.state = "absent" -> "no-op"
      [] cur.state = "absent" /\ des.state = "present" -> "create"
      [] cur.state = "present" /\ des.state = "absent" -> "delete"
      [] cur.state = "present" /\ des.state = "present" ->
            IF (IF "server" \in DOMAIN cur THEN cur.server ELSE None) = des.server
            THEN "no-op" ELSE "update"

TypeOK ==
    /\ DOMAIN store \subseteq Addrs
    /\ \A p \in Procs : pc[p] \in {"idle", "fetch", "main", "done"}

-----------------------------------------------------------------------------
(* C1: idempotence.                                                        *)

\* C1 as stated: a real run that follows a successful real run with the same
\* parameters, and returns a result, reports changed = false and has issued
\* no create/update/delete call.
C1_IdempotentAlways ==
    \A p \in Procs :
        (SecondRealRun(p) /\ ~result[p].failed)
        => /\ MutatingCalls(calls[p]) = {}
           /\ ~result[p].changed

\* C1 (amended): a real run that follows a successful real run with the same
\* parameters issues no create/update/delete call and, when it returns a
\* result, reports changed = false, provided the first run did not create a
\* floating IP, or created one whose address is the ip parameter.
C1_IdempotentUnlessCreated ==
    \A p \in Procs :
        (/\ SecondRealRun(p)
         /\ \/ prev[p].action # "create"
            \/ prev[p].result.rec.ip = params[p].ip)
        => /\ MutatingCalls(calls[p]) = {}
           /\ ~result[p].failed => ~result[p].changed

C1_Witness ==
    \E p \in Procs :
        /\ SecondRealRun(p)
        /\ prev[p].action = "update"
        /\ prev[p].result.changed
        /\ ~result[p].failed
        /\ ~result[p].changed

-----------------------------------------------------------------------------
(* C2: the changed value of a dry run.                                     *)

\* C2: a real run on the pair a successful dry run has just reported on, and
\* which the collaborator does not fail, reports the changed value of the dry run.
C2_DryRunChanged ==
    \A p \in Procs :
        (RealAfterDry(p) /\ \A i \in 1..Len(calls[p]) : calls[p][i].ok)
        => /\ ~result[p].failed
           /\ result[p].changed = prev[p].result.changed

\* What does hold: the two values agree whenever the real run succeeds.
C2_ChangedOfSuccessfulRuns ==
    \A p \in Procs :
        (RealAfterDry(p) /\ ~result[p].failed)
        => result[p].changed = prev[p].result.changed

-----------------------------------------------------------------------------
(* C3: a dry run has no effect.                                            *)

\* C3: while an invocation runs in check mode the store is the store it
\* started on, and the only call it has issued is the fetch.
C3_DryRunNoEffect ==
    \A p \in Procs :
        (check_mode[p] /\ pc[p] # "idle")
        => /\ store = store0[p]
           /\ Len(calls[p]) <= 1
           /\ \A i \in 1..Len(calls[p]) : calls[p][i].method = "GET"

C3_Witness ==
    \E p \in Procs :
        /\ DryRun(p)
        /\ ~result[p].failed
        /\ result[p].changed
        /\ Len(calls[p]) = 1
        /\ current[p].state = "present"

-----------------------------------------------------------------------------
(* C4: the record of a dry run.                                            *)

\* C4 as stated: a real run on the pair a successful dry run has just reported
\* on returns the record the dry run returned.
C4_SameRecord ==
    \A p \in Procs :
        (RealAfterDry(p) /\ ~result[p].failed)
        => result[p].rec = prev[p].result.rec

\* C4 (amended): a dry run returns the current record, as fetched, and issues
\* no create/update/delete call; the real run on the same pair returns that
\* record exactly when it selects no-op.
C4_DryRunReturnsCurrent ==
    \A p \in Procs :
        /\ (DryRun(p) /\ ~result[p].failed)
           => /\ result[p].rec = current[p]
              /\ MutatingCalls(calls[p]) = {}
        /\ (RealAfterDry(p) /\ ~result[p].failed)
           => /\ prev[p].result.rec = current[p]
              /\ (result[p].rec = prev[p].result.rec) <=> (action[p] = "no-op")

C4_Witness ==
    \E p \in Procs :
        /\ RealAfterDry(p)
        /\ ~result[p].failed
        /\ action[p] = "delete"
        /\ prev[p].result.rec.state = "present"
        /\ result[p].rec.state = "absent"

-----------------------------------------------------------------------------
(* C5: the decision table.                                                 *)

\* C5: the branch a real run takes is the action of the decision table on the
\* current record and the desired state, and a real run that returns a result
\* reports changed exactly when that action is not no-op.
C5_DecisionTable ==
    \A p \in Procs :
        (RealRun(p) /\ current[p] # NoneObj)
        => /\ action[p] = DecisionTable(current[p], params[p])
           /\ ~result[p].failed => (result[p].changed <=> action[p] # "no-op")

C5_Witness ==
    \E p \in Procs :
        /\ RealRun(p)
        /\ ~result[p].failed
        /\ current[p].state = "present"
        /\ params[p].state = "absent"
        /\ current[p].server # params[p].server
        /\ action[p] = "delete"
        /\ result[p].changed

-----------------------------------------------------------------------------
(* C6: parameter validation.                                               *)

\* C6 as stated: an invocation that ends in a missing-parameter failure has
\* made no call to the collaborator and left the store alone.
C6_NoCallAtAll ==
    \A p \in Procs :
        MissingParameter(p) => (calls[p] = <<>> /\ store = store0[p])

\* C6 (amended): such an invocation has made no create/update/delete call and
\* left the store alone; the one call it has made is the fetch, and it has
\* made it whenever an ip other than '' was given.
C6_NoMutatingCall ==
    \A p \in Procs :
        MissingParameter(p)
        => /\ store = store0[p]
           /\ calls[p] = IF truthy_ip(params[p].ip)
                         THEN <<Get(<<"floating-ips", params[p].ip>>, TRUE)>>
                         ELSE <<>>

C6_Witness ==
    \E p \in Procs :
        /\ MissingParameter(p)
        /\ result[p].msg = MsgServer
        /\ action[p] = "update"
        /\ Len(calls[p]) = 1

-----------------------------------------------------------------------------
(* C7: the payload of an update.                                           *)

\* C7: the payload of every update call has exactly the keys server and tags.
C7_UpdatePayload ==
    \A p \in Procs :
        \A i \in 1..Len(calls[p]) :
            IsUpdateCall(calls[p][i]) => DOMAIN calls[p][i].data = {"server", "tags"}

C7_Witness ==
    \E p \in Procs :
        /\ Succeeded(p)
        /\ action[p] = "update"
        /\ params[p].ip_version = 6
        /\ params[p].prefix_length = 56
        /\ params[p].type = "global"
        /\ \E i \in 1..Len(calls[p]) : IsUpdateCall(calls[p][i])

-----------------------------------------------------------------------------
(* C8: identity preservation.                                              *)

\* C8: when the current record is present and the desired state is present
\* (the update and the no-op paths), the record of a successful invocation
\* has the identifier of the current record.
C8_IdentityPreserved ==
    \A p \in Procs :
        (/\ Succeeded(p)
         /\ current[p].state = "present"
         /\ params[p].state = "present")
        => result[p].rec.ip = current[p].ip

C8_Witness ==
    \E p \in Procs :
        /\ Succeeded(p)
        /\ action[p] = "update"
        /\ current[p].state = "present"
        /\ Cardinality(DOMAIN store) = 2
        /\ result[p].rec.ip = current[p].ip
        /\ result[p].rec.server # current[p].server

-----------------------------------------------------------------------------
(* C9: the key of delete and update, and the record of a delete.           *)

\* C9: the delete and update requests are keyed by the identifier of the
\* current record, and a successful delete returns changed = true with the
\* record {ip: that identifier, state: absent} and nothing else.
C9_KeyedByCurrent ==
    \A p \in Procs :
        (Done(p) /\ action[p] \in {"delete", "update"})
        => /\ \A i \in MutatingCalls(calls[p]) :
                 calls[p][i].path = <<"floating-ips", current[p].ip>>
           /\ (action[p] = "delete" /\ ~result[p].failed)
              => result[p] = [failed |-> FALSE, changed |-> TRUE,
                              rec |-> [ip |-> current[p].ip, state |-> "absent"]]

C9_Witness ==
    \E p \in Procs :
        /\ Succeeded(p)
        /\ action[p] = "delete"
        /\ MutatingCalls(calls[p]) # {}
        /\ current[p].ip \notin DOMAIN store

-----------------------------------------------------------------------------
(* C10: one attempt.                                                       *)

\* C10: once the collaborator has failed a create, update or delete call, the
\* invocation is over with that failure and reports no changed, the call is
\* the last and the only mutating call of the invocation, and info is still
\* the record main() decided on.
C10_AtMostOneAttempt ==
    \A p \in Procs :
        \A i \in MutatingCalls(calls[p]) :
            ~calls[p][i].ok
            => /\ Done(p)
               /\ result[p] = fail_json(MsgApi)
               /\ i = Len(calls[p])
               /\ MutatingCalls(calls[p]) = {i}
               /\ info[p] = current[p]

C10_Witness ==
    \E p \in Procs :
        /\ Done(p)
        /\ action[p] = "update"
        /\ result[p].failed
        /\ \E i \in MutatingCalls(calls[p]) : ~calls[p][i].ok
        /\ current[p].server # params[p].server

-----------------------------------------------------------------------------
(* C11: the identifier of the returned record.                             *)

\* C11: the record of every successful invocation holds the identifier ip.
C11_IdentifierAlwaysReturned ==
    \A p \in Procs :
        Succeeded(p) => "ip" \in DOMAIN result[p].rec

\* What does hold: the identifier is missing only from the absent record of
\* an invocation that was given no ip, or '' for it.
C11_IdentifierUnlessNoIp ==
    \A p \in Procs :
        Succeeded(p) =>
            ("ip" \in DOMAIN result[p].rec
                <=> (truthy_ip(params[p].ip) \/ result[p].rec.state = "present"))

-----------------------------------------------------------------------------
(* C12: clearing the tags.                                                 *)

\* C12: after a successful real run with state = present and tags = {} on a
\* floating IP that existed when the run started, the floating IP has no tags.
C12_EmptyTagsClear ==
    \A p \in Procs :
        (/\ Succeeded(p)
         /\ ~check_mode[p]
         /\ params[p].state = "present"
         /\ params[p].tags = "{}"
         /\ current[p].state = "present")
        => store[current[p].ip].tags = "{}"

\* What does hold: the tags are cleared when the run also reassigns the server.
C12_EmptyTagsClearOnUpdate ==
    \A p \in Procs :
        (/\ Succeeded(p)
         /\ action[p] = "update"
         /\ params[p].tags = "{}")
        => store[current[p].ip].tags = "{}"

-----------------------------------------------------------------------------
(* C13: one of ip and ip_version.                                          *)

Started(p) == pc[p] # "idle"
NeitherGiven(p) == params[p].ip = NoneInt /\ params[p].ip_version = NoneInt
BothGiven(p) == params[p].ip # NoneInt /\ params[p].ip_version # NoneInt

\* C13: an invocation given neither or both of ip and ip_version is rejected
\* before any fetch or mutating call is made.
C13_ExactlyOne ==
    \A p \in Procs :
        (Started(p) /\ (NeitherGiven(p) \/ BothGiven(p)))
        => /\ Done(p)
           /\ result[p] = fail_json(MsgOneOf)
           /\ calls[p] = <<>>

\* C13, amended: an invocation given neither ip nor ip_version is rejected
\* before any call is made, leaving the store as it was; this rejection is
\* made for no other invocation, so one given both is accepted.
C13_AtLeastOne ==
    \A p \in Procs :
        Started(p) =>
            /\ NeitherGiven(p) =>
                  /\ Done(p)
                  /\ result[p] = fail_json(MsgOneOf)
                  /\ calls[p] = <<>>
                  /\ store = store0[p]
            /\ (Done(p) /\ result[p] = fail_json(MsgOneOf)) => NeitherGiven(p)

C13_Witness ==
    \E p \in Procs :
        /\ Done(p)
        /\ NeitherGiven(p)
        /\ result[p] = fail_json(MsgOneOf)
        /\ calls[p] = <<>>

-----------------------------------------------------------------------------
(* C14: the sequence of the collaborator calls.                            *)

FetchCalls(cs) == { i \in 1..Len(cs) : cs[i].method = "GET" }

\* The invocation ended in main() before the constructor was called.
RejectedAtStart(p) ==
    Done(p) /\ result[p] \in {fail_json(MsgOneOf), fail_json(MsgIpaddress)}

\* The method and path shape of the request each branch sends.
IsCallOf(c, act) ==
    CASE act = "create" -> c.method = "POST" /\ Len(c.path) = 1
      [] act = "update" -> c.method = "POST" /\ Len(c.path) = 2
      [] act = "delete" -> c.method = "DELETE"
      [] OTHER -> FALSE

\* C14 as stated, the fetch: an invocation that has come to its decision or
\* its end has fetched exactly when ip was supplied.
C14_FetchIffSupplied ==
    \A p \in Procs :
        (Started(p) /\ pc[p] \in {"main", "done"})
        => (FetchCalls(calls[p]) = {1} <=> params[p].ip # NoneInt)

\* C14, amended: an invocation fetches at most once and first of all; one that passes
\* the checks made before the constructor fetches exactly when an ip other
\* than '' is given, one that does not makes no call. An invocation issues at most one create/update/delete call, last of all and
\* after the branch was selected; a real run that returns changed = true has
\* issued exactly one such call, answered by the service, and any run that
\* returns changed = false has issued none.
C14_CallSequence ==
    \A p \in Procs :
        Started(p) =>
            /\ FetchCalls(calls[p]) \subseteq {1}
            /\ pc[p] = "fetch" => calls[p] = <<>>
            /\ pc[p] \in {"main", "done"}
                  => IF RejectedAtStart(p) THEN calls[p] = <<>>
                     ELSE FetchCalls(calls[p]) = {1} <=> truthy_ip(params[p].ip)
            /\ Cardinality(MutatingCalls(calls[p])) <= 1
            /\ \A i \in MutatingCalls(calls[p]) :
                  /\ i = Len(calls[p])
                  /\ Done(p)
                  /\ IsCallOf(calls[p][i], action[p])
            /\ (Succeeded(p) /\ ~check_mode[p] /\ result[p].changed)
                  => /\ Cardinality(MutatingCalls(calls[p])) = 1
                     /\ calls[p][Len(calls[p])].ok
            /\ (Succeeded(p) /\ ~result[p].changed)
                  => MutatingCalls(calls[p]) = {}

C14_Witness ==
    \E p \in Procs :
        /\ Succeeded(p)
        /\ ~check_mode[p]
        /\ result[p].changed
        /\ Len(calls[p]) = 2
        /\ calls[p][1].method = "GET"
        /\ calls[p][2].method = "DELETE"

-----------------------------------------------------------------------------
(* C15: a change of the tags or of the reverse pointer alone.              *)

\* The decision was made on a present floating IP that is to stay present on
\* the server it is assigned to.
ServerUnchanged(p) ==
    /\ Done(p)
    /\ current[p] # NoneObj
    /\ current[p].state = "present"
    /\ params[p].state = "present"
    /\ current[p].server = params[p].server

\* C15: when the floating IP is present, is to be present and is assigned to
\* the server asked for, the invocation issues no create/update/delete call,
\* leaves the store as it was and returns changed = false with the record it
\* fetched, whatever tags and reverse_ptr ask for.
C15_TagsOnlyNoUpdate ==
    \A p \in Procs :
        ServerUnchanged(p)
        => /\ MutatingCalls(calls[p]) = {}
           /\ store = store0[p]
           /\ result[p] = exit_json(FALSE, current[p])

C15_Witness ==
    \E p \in Procs :
        /\ ServerUnchanged(p)
        /\ ~check_mode[p]
        /\ params[p].server # None
        /\ params[p].tags # None
        /\ params[p].tags # current[p].tags
        /\ params[p].reverse_ptr # None
        /\ params[p].reverse_ptr # current[p].reverse_ptr
        /\ ~result[p].changed
        /\ store[current[p].ip].tags # params[p].tags

-----------------------------------------------------------------------------
(* C16: the state of the returned record and the store.                    *)

\* The floating IP the record names exists in the store.
Exists(rec) == "ip" \in DOMAIN rec /\ rec.ip \in DOMAIN store

\* C16: with no other invocation running, the record a successful invocation
\* returns has state = present exactly when the floating IP named by its ip
\* exists in the store at that moment, whichever branch or dry run produced it.
C16_StateMirrorsStore ==
    \A p \in Procs :
        Succeeded(p) =>
            /\ result[p].rec.state \in States
            /\ result[p].rec.state = "present" <=> Exists(result[p].rec)

C16_Witness ==
    \E p \in Procs :
        /\ Succeeded(p)
        /\ action[p] = "delete"
        /\ result[p].rec.state = "absent"
        /\ result[p].rec.ip \in DOMAIN store0[p]
        /\ ~Exists(result[p].rec)
        /\ store # EmptyStore

-----------------------------------------------------------------------------
(* C17: two invocations racing on one floating IP.                         *)

\* In this step the service applied an update request of p.
UpdateApplied(p) ==
    /\ Len(calls'[p]) = Len(calls[p]) + 1
    /\ IsUpdateCall(calls'[p][Len(calls'[p])])
    /\ calls'[p][Len(calls'[p])].ok

\* C17: however the steps of two invocations on the same present floating IP
\* interleave, each invocation issues at most one create/update/delete call,
\* each update the service applies leaves the floating IP assigned to the
\* server of the invocation that sent it, and no other step changes the
\* store: the server in the store is that of the update applied last.
C17_LastWriteWins ==
    [][ /\ \A p \in Procs :
              /\ Cardinality(MutatingCalls(calls'[p])) <= 1
              /\ UpdateApplied(p)
                    => /\ store'[RaceAddr].server = params[p].server
                       /\ result'[p].rec.server = params[p].server
                       /\ \A q \in Procs \ {p} : result'[q] = result[q]
        /\ (\A p \in Procs : ~UpdateApplied(p)) => store' = store
      ]_vars

\* Both invocations returned changed = true after their update was applied,
\* and the record one of them returned names a server the floating IP is no
\* longer assigned to.
C17_Witness ==
    \E p, q \in Procs :
        /\ p # q
        /\ Succeeded(p) /\ action[p] = "update" /\ result[p].changed
        /\ Succeeded(q) /\ action[q] = "update" /\ result[q].changed
        /\ params[p].server # params[q].server
        /\ store[RaceAddr].server = params[q].server
        /\ result[p].rec.server = params[p].server
        /\ result[p].rec.server # store[RaceAddr].server

-----------------------------------------------------------------------------
(* C18: the record made of a fetch result.                                 *)

\* The constructor returned: info is what main() will read.
Mapped(p) == pc[p] = "main"

\* C18: the record the constructor leaves is {state: absent} when no ip, or
\* '', was given; exactly {ip: the ip asked for, state: absent} when the fetch found
\* nothing; and for a fetched resource, whose network is then a valid one, the
\* resource's fields with state = present and ip = the address of its network
\* added and server replaced by the uuid of the server object, or None when
\* no server is attached. The store is left as it was.
C18_MapperNormalizes ==
    \A p \in Procs :
        Mapped(p) =>
            /\ store = store0[p]
            /\ ~truthy_ip(params[p].ip)
                  => info[p] = [state |-> "absent"] /\ calls[p] = <<>>
            /\ (truthy_ip(params[p].ip) /\ params[p].ip \notin DOMAIN store)
                  => info[p] = [ip |-> params[p].ip, state |-> "absent"]
            /\ (truthy_ip(params[p].ip) /\ params[p].ip \in DOMAIN store)
                  => LET raw == ApiGet(store, params[p].ip)
                     IN /\ valid_network(raw.network)
                        /\ DOMAIN info[p] = DOMAIN raw \cup {"state", "ip"}
                        /\ info[p].state = "present"
                        /\ info[p].ip = raw.network.addr
                        /\ raw.server = NoneObj => info[p].server = None
                        /\ raw.server # NoneObj => info[p].server = raw.server.uuid
                        /\ \A k \in DOMAIN raw \ {"server"} : info[p][k] = raw[k]

C18_Witness ==
    \E p \in Procs :
        /\ Mapped(p)
        /\ params[p].ip \in DOMAIN store
        /\ store[params[p].ip].prefixlen = 56
        /\ store[params[p].ip].server \in Servers
        /\ info[p].server = store[params[p].ip].server
        /\ info[p].ip = params[p].ip
        /\ info[p].tags = "{env:prod}"

-----------------------------------------------------------------------------
(* C19: the returned record satisfies what was asked for.                  *)

\* C19: the record a successful real run returns has the state asked for
\* and, when present, the server asked for, so the decision table selects
\* no-op on it.
C19_ReturnedRecordConverged ==
    \A p \in Procs :
        (Succeeded(p) /\ ~check_mode[p])
        => /\ result[p].rec.state = params[p].state
           /\ result[p].rec.state = "present"
                 => current_server(result[p].rec) = params[p].server
           /\ DecisionTable(result[p].rec, params[p]) = "no-op"

C19_Witness ==
    \E p \in Procs :
        /\ Succeeded(p)
        /\ ~check_mode[p]
        /\ action[p] = "create"
        /\ params[p].server \in Servers
        /\ result[p].rec.state = "present"
        /\ result[p].rec.server = params[p].server
        /\ store[result[p].rec.ip].server = params[p].server
====
